---- MODULE Spec2Model ----
(***************************************************************************)
(* A model of two parts of the repository:                                 *)
(*                                                                         *)
(*   - src/four_kls.py, the training script: the start-up statements, the  *)
(*     pre-flight check of (mode, sample_from_reward, reweight) and the    *)
(*     training loop (specification Spec);                                 *)
(*   - src/gfn/containers/states.py, the States container: subclass        *)
(*     definition, the constructor and the mask recomputation              *)
(*     (specification SpecStates).                                         *)
(***************************************************************************)
EXTENDS Integers, Sequences, FiniteSets, TLC

(***************************************************************************)
(* Bounds of the model.                                                    *)
(***************************************************************************)
MaxIter == 2
BufCap == 2
MaxDim == 2
MaxRank == 2
MaxNumel == 2

VARIABLES
    \* ---- src/four_kls.py ----
    pc,                 \* position of the script
    error,              \* the exception that ended the run, "none" otherwise
    optimize,           \* interpreter started with -O: assert statements are not executed
    mode,               \* args.mode
    sample_from_reward, \* args.sample_from_reward
    reweight,           \* args.reweight
    baseline_kind,      \* args.baseline
    replay_buffer_size, \* args.replay_buffer_size
    n_iterations,       \* args.n_iterations
    i,                  \* loop variable of the training loop
    actions_sampler,    \* "None", "PF" (LogitPFActionsSampler) or "PB" (LogitPBActionsSampler)
    optimizer,          \* the parameters held by the param groups of optimizer
    optimizer_Z,        \* the parameters held by optimizer_Z
    use_replay_buffer,
    replay_buffer,      \* the stored trajectory batches, oldest first
    trajectories,       \* the batch bound to the name `trajectories`
    validation_trajectories,
    training_objects,
    scores,             \* result of loss_fn.get_scores: the batch it was computed on
    baseline,           \* autograd leaves of `baseline`
    weights,            \* autograd leaves of `weights` ("undefined" until assigned)
    loss,               \* the policy loss: its leaves and the logZ version it read
    grad,               \* the .grad buffer of each parameter: the losses accumulated in it
    version,            \* how many times each parameter was changed by an optimizer step
    steps,              \* the optimizer steps of the current iteration, in order
    zeroed,             \* zero_grad calls of the current iteration
    epochs,             \* scheduler epochs: [optimizer |-> _, optimizer_Z |-> _]
    calls,              \* the sampler / buffer / optimizer calls made so far
    received,           \* what each forward-oriented consumer was last handed
    visited_terminating_states,
    \* ---- src/gfn/containers/states.py ----
    cls,                \* the States subclass: its class attributes, or why it was rejected
    obj,                \* the container the last constructor call produced
    call,               \* the last call on the class or the container: arguments, outcome
    built_masks         \* the masks the container held when its constructor returned

scriptVars == << pc, error, optimize, mode,
                 sample_from_reward, reweight, baseline_kind, replay_buffer_size,
                 n_iterations, i, actions_sampler, optimizer, optimizer_Z,
                 use_replay_buffer, replay_buffer, trajectories,
                 validation_trajectories, training_objects, scores, baseline,
                 weights, loss, grad, version, steps, zeroed, epochs, calls,
                 received, visited_terminating_states >>

statesVars == << cls, obj, call, built_masks >>

vars == << scriptVars, statesVars >>

(***************************************************************************)
(* src/four_kls.py                                                         *)
(***************************************************************************)
Modes == {"tb", "forward_kl", "reverse_kl", "rws", "reverse_rws"}
Baselines == {"global", "local", "None"}

\* parametrization.parameters: the log-normalizer and the two policies.
Params == {"logZ", "PF", "PB"}

NoBatch == [id |-> -1, sampler |-> "None", order |-> "none", reverted |-> FALSE,
            src |-> "none", ids |-> {}]

\* The list of line 148-154, entry by entry.
InvalidCombinations ==
    << <<"tb", TRUE, TRUE>>,
       <<"tb", FALSE, TRUE>>,
       <<"forward_kl", TRUE, TRUE>>,
       <<"reverse_kl", TRUE, FALSE>>,
       <<"reverse_kl", TRUE, FALSE>> >>

\* (args.mode, args.sample_from_reward, args.reweight) in [...]
IsInvalidCombination(m, s, r) ==
    \E k \in 1..Len(InvalidCombinations) : InvalidCombinations[k] = <<m, s, r>>

\* autograd: a tensor is known by the parameters its graph reaches.
Detach(leaves) == {}
Leaves_logPF == {"PF"}
Leaves_logPB == {"PB"}
\* scores = logPF - logPB - log_rewards
Leaves_scores == Leaves_logPF \cup Leaves_logPB
Leaves_logZ == {"logZ"}

\* loss.backward(): accumulate into the .grad of every leaf of the loss.
Backward(g, leaves, name) ==
    [p \in Params |-> IF p \in leaves THEN Append(g[p], name) ELSE g[p]]

\* opt.zero_grad(): clear the .grad of the parameters the optimizer holds.
ZeroGradOf(g, held) ==
    [p \in Params |-> IF p \in held THEN << >> ELSE g[p]]

\* The order in which an optimizer walks its param groups: the policy
\* parameters (the first group), then logZ (the group added in mode "tb").
ParamOrder == << "PF", "PB", "logZ" >>

\* opt.step(): one record per parameter the optimizer holds, with the
\* gradient it applies and the version of the parameter it starts from.
StepRecords(by, held, g, ver) ==
    LET all == [k \in 1..Len(ParamOrder) |->
                   [by |-> by, param |-> ParamOrder[k], grad |-> g[ParamOrder[k]],
                    from |-> ver[ParamOrder[k]]]]
        Held(r) == r.param \in held
    IN  SelectSeq(all, Held)

StepVersions(held, ver) ==
    [p \in Params |-> IF p \in held THEN ver[p] + 1 ELSE ver[p]]

\* The param groups of `optimizer` without the group of line 117-120.
OptimizerParamsNoLogZ(m) == Params \ {"logZ"}

\* The param groups of `optimizer` with the logZ group added in every mode.
OptimizerParamsAllModes(m) == Params

\* Line 103-120: the param groups of `optimizer`.
OptimizerParams(m) ==
    (Params \ {"logZ"}) \cup (IF m = "tb" THEN {"logZ"} ELSE {})

\* Line 111: the parameters of `optimizer_Z`.
OptimizerZParams == {"logZ"}

\* The samplers and the reversal transform (gfn.samplers, gfn.containers.trajectories).
\* A forward sampler builds root-first batches, a backward sampler terminal-first ones.
SamplerBatch(kind, id) ==
    [id |-> id, sampler |-> kind,
     order |-> IF kind = "PB" THEN "terminal_first" ELSE "root_first",
     reverted |-> FALSE, src |-> "sampler", ids |-> {id}]

revert_backward_trajectories(t) ==
    [t EXCEPT !.order = "root_first", !.reverted = TRUE]

\* Line 157-168 without the reversal of line 163.
TrajectoriesNoRevert(sfr, kind, id) == SamplerBatch(kind, id)

\* Line 157-168: the batch bound to `trajectories`.
Trajectories(sfr, kind, id) ==
    IF sfr THEN revert_backward_trajectories(SamplerBatch(kind, id))
    ELSE SamplerBatch(kind, id)

\* replay_buffer.add: insert, evicting the oldest entries beyond the capacity.
BufferAdd(buf, cap, t) ==
    LET all == Append(buf, t)
    IN  IF Len(all) > cap THEN SubSeq(all, Len(all) - cap + 1, Len(all)) ELSE all

\* replay_buffer.sample: trajectories drawn from the stored batches `chosen`.
BufferSample(buf, chosen) ==
    [id |-> -1, sampler |-> buf[1].sampler, order |-> buf[1].order,
     reverted |-> buf[1].reverted, src |-> "buffer", ids |-> chosen]

BufferIds(buf) == {buf[k].id : k \in 1..Len(buf)}

\* Line 176: the argument of loss_fn.get_scores.
ScoredBatch(traj, train) == traj

\* Line 189: loss_Z = (scores.detach() + logZ_tensor).pow(2).mean()
LossZLeaves == Detach(Leaves_scores) \cup Leaves_logZ

\* Line 182-187: baseline.
BaselineLeaves(kind) ==
    IF kind = "local" THEN Detach(Leaves_scores)
    ELSE IF kind = "global" THEN Detach(Leaves_logZ)
    ELSE {}

\* Line 201-224: the leaves of the policy loss (w: the leaves of `weights`).
PolicyLossLeaves(m, sfr, rw, b, w) ==
    IF m = "tb" THEN Leaves_scores \cup Leaves_logZ
    ELSE IF m = "forward_kl" THEN
        Leaves_logPB \cup Detach(Leaves_scores) \cup b \cup Leaves_logPF
        \cup (IF rw THEN w ELSE {})
    ELSE IF m = "reverse_kl" THEN
        Leaves_logPF \cup Detach(Leaves_scores) \cup b \cup Leaves_logPB
    ELSE IF m = "rws" THEN
        Leaves_logPF \cup (IF ~sfr /\ rw THEN w ELSE {})
        \cup Leaves_logPB \cup (IF sfr /\ rw THEN w ELSE {})
    ELSE
        Leaves_logPF \cup Detach(Leaves_scores) \cup b
        \cup (IF sfr /\ rw THEN w ELSE {})
        \cup Leaves_logPB \cup Detach(Leaves_scores) \cup b
        \cup (IF ~sfr /\ rw THEN w ELSE {})

ScriptInit ==
    /\ pc = "launch"
    /\ error = "none"
    /\ optimize \in BOOLEAN
    /\ mode \in Modes
    /\ sample_from_reward \in BOOLEAN
    /\ reweight \in BOOLEAN
    /\ baseline_kind \in Baselines
    /\ replay_buffer_size \in 0..BufCap
    /\ n_iterations \in 0..MaxIter
    /\ i = 0
    /\ actions_sampler = "None"
    /\ optimizer = {}
    /\ optimizer_Z = {}
    /\ use_replay_buffer = FALSE
    /\ replay_buffer = << >>
    /\ trajectories = NoBatch
    /\ validation_trajectories = NoBatch
    /\ training_objects = NoBatch
    /\ scores = NoBatch
    /\ baseline = {}
    /\ weights = "undefined"
    /\ loss = [leaves |-> {}, logZ_version |-> -1, name |-> "none"]
    /\ grad = [p \in Params |-> << >>]
    /\ version = [p \in Params |-> 0]
    /\ steps = << >>
    /\ zeroed = << >>
    /\ epochs = [optimizer |-> 0, optimizer_Z |-> 0]
    /\ calls = {}
    /\ received = [get_scores |-> NoBatch, replay_buffer |-> NoBatch]
    /\ visited_terminating_states = << >>

Fail(e) ==
    /\ pc' = "failed"
    /\ error' = e

argsVars == << optimize, mode, sample_from_reward,
               reweight, baseline_kind, replay_buffer_size, n_iterations >>

\* Line 59-66: parse_args, the slurm block (config_id is only printed) and
\* `assert False`, which the interpreter executes unless started with -O.
Startup ==
    /\ pc = "launch"
    /\ UNCHANGED statesVars
    /\ IF optimize
       THEN pc' = "setup" /\ error' = error
       ELSE Fail("AssertionError")
    /\ UNCHANGED << argsVars, i, actions_sampler, optimizer, optimizer_Z,
                    use_replay_buffer, replay_buffer, trajectories,
                    validation_trajectories, training_objects, scores, baseline,
                    weights, loss, grad, version, steps, zeroed, epochs, calls,
                    received, visited_terminating_states >>

\* Line 68-146: estimators, samplers, optimizers, replay buffer.
Setup ==
    /\ pc = "setup"
    /\ UNCHANGED statesVars
    /\ pc' = "check"
    /\ actions_sampler' = IF ~sample_from_reward THEN "PF" ELSE "PB"
    /\ optimizer_Z' = OptimizerZParams
    /\ optimizer' = OptimizerParams(mode)
    /\ use_replay_buffer' = (replay_buffer_size > 0)
    /\ replay_buffer' = << >>
    /\ visited_terminating_states' = << >>
    /\ UNCHANGED << error, argsVars, i, trajectories, validation_trajectories,
                    training_objects, scores, baseline, weights, loss, grad,
                    version, steps, zeroed, epochs, calls, received >>

\* Line 148-155: the invalid-combination check.
CheckCombination ==
    /\ pc = "check"
    /\ UNCHANGED statesVars
    /\ IF IsInvalidCombination(mode, sample_from_reward, reweight)
       THEN Fail("ValueError")
       ELSE pc' = "loop" /\ error' = error
    /\ UNCHANGED << argsVars, i, actions_sampler, optimizer, optimizer_Z,
                    use_replay_buffer, replay_buffer, trajectories,
                    validation_trajectories, training_objects, scores, baseline,
                    weights, loss, grad, version, steps, zeroed, epochs, calls,
                    received, visited_terminating_states >>

\* Line 156: for i in trange(args.n_iterations).
LoopHead ==
    /\ pc = "loop"
    /\ UNCHANGED statesVars
    /\ pc' = IF i < n_iterations THEN "sample" ELSE "exit"
    /\ steps' = << >>
    /\ zeroed' = << >>
    /\ UNCHANGED << error, argsVars, i, actions_sampler, optimizer, optimizer_Z,
                    use_replay_buffer, replay_buffer, trajectories,
                    validation_trajectories, training_objects, scores, baseline,
                    weights, loss, grad, version, epochs, calls, received,
                    visited_terminating_states >>

\* Line 157-168: sampling.
Sample ==
    /\ pc = "sample"
    /\ UNCHANGED statesVars
    /\ pc' = "replay"
    /\ trajectories' = Trajectories(sample_from_reward, actions_sampler, i)
    /\ IF sample_from_reward
       THEN /\ validation_trajectories' = SamplerBatch("PF", i)
            /\ calls' = calls \cup {"trajectories_sampler.sample_trajectories",
                                    "validation_trajectories_sampler.sample"}
       ELSE /\ validation_trajectories' = validation_trajectories
            /\ calls' = calls \cup {"trajectories_sampler.sample"}
    /\ UNCHANGED << error, argsVars, i, actions_sampler, optimizer, optimizer_Z,
                    use_replay_buffer, replay_buffer, training_objects, scores,
                    baseline, weights, loss, grad, version, steps, zeroed, epochs,
                    received, visited_terminating_states >>

\* Line 170-174: the replay buffer.
Replay ==
    /\ pc = "replay"
    /\ UNCHANGED statesVars
    /\ pc' = "scores"
    /\ IF use_replay_buffer
       THEN /\ replay_buffer' = BufferAdd(replay_buffer, replay_buffer_size, trajectories)
            /\ \E chosen \in (SUBSET BufferIds(replay_buffer')) \ {{}} :
                  training_objects' = BufferSample(replay_buffer', chosen)
            /\ received' = [received EXCEPT !.replay_buffer = trajectories]
            /\ calls' = calls \cup {"replay_buffer.add", "replay_buffer.sample"}
       ELSE /\ training_objects' = trajectories
            /\ UNCHANGED << replay_buffer, received, calls >>
    /\ UNCHANGED << error, argsVars, i, actions_sampler, optimizer, optimizer_Z,
                    use_replay_buffer, trajectories, validation_trajectories,
                    scores, baseline, weights, loss, grad, version, steps, zeroed,
                    epochs, visited_terminating_states >>

\* Line 176: loss_fn.get_scores.
GetScores ==
    /\ pc = "scores"
    /\ UNCHANGED statesVars
    /\ pc' = "zero_grad"
    /\ scores' = ScoredBatch(trajectories, training_objects)
    /\ received' = [received EXCEPT !.get_scores = scores']
    /\ calls' = calls \cup {"loss_fn.get_scores"}
    /\ UNCHANGED << error, argsVars, i, actions_sampler, optimizer, optimizer_Z,
                    use_replay_buffer, replay_buffer, trajectories,
                    validation_trajectories, training_objects, baseline, weights,
                    loss, grad, version, steps, zeroed, epochs,
                    visited_terminating_states >>

\* Line 178-187: optimizer.zero_grad(), optimizer_Z.zero_grad(), baseline.
ZeroGrad ==
    /\ pc = "zero_grad"
    /\ UNCHANGED statesVars
    /\ pc' = "loss_Z"
    /\ grad' = ZeroGradOf(ZeroGradOf(grad, optimizer), optimizer_Z)
    /\ zeroed' = zeroed \o << "optimizer", "optimizer_Z" >>
    /\ baseline' = BaselineLeaves(baseline_kind)
    /\ UNCHANGED << error, argsVars, i, actions_sampler, optimizer, optimizer_Z,
                    use_replay_buffer, replay_buffer, trajectories,
                    validation_trajectories, training_objects, scores, weights,
                    loss, version, steps, epochs, calls, received,
                    visited_terminating_states >>

\* Line 189-199: loss_Z.backward(), optimizer_Z.step(), scheduler_Z.step(), weights.
LossZStep ==
    /\ pc = "loss_Z"
    /\ UNCHANGED statesVars
    /\ pc' = "policy_loss"
    /\ LET g == Backward(grad, LossZLeaves, "loss_Z")
       IN  /\ grad' = g
           /\ steps' = steps \o StepRecords("optimizer_Z", optimizer_Z, g, version)
    /\ version' = StepVersions(optimizer_Z, version)
    /\ epochs' = [epochs EXCEPT !.optimizer_Z = @ + 1]
    /\ calls' = calls \cup {"optimizer_Z.step"}
    /\ weights' = IF reweight THEN Detach(Leaves_scores) ELSE weights
    /\ UNCHANGED << error, argsVars, i, actions_sampler, optimizer, optimizer_Z,
                    use_replay_buffer, replay_buffer, trajectories,
                    validation_trajectories, training_objects, scores, baseline,
                    loss, zeroed, received, visited_terminating_states >>

\* Line 201-226: the policy loss of the mode.
PolicyLoss ==
    /\ pc = "policy_loss"
    /\ UNCHANGED statesVars
    /\ pc' = "policy_step"
    /\ loss' = [leaves |-> PolicyLossLeaves(mode, sample_from_reward, reweight,
                                            baseline, weights),
                logZ_version |-> IF mode = "tb" THEN version["logZ"] ELSE -1,
                name |-> mode]
    /\ UNCHANGED << error, argsVars, i, actions_sampler, optimizer, optimizer_Z,
                    use_replay_buffer, replay_buffer, trajectories,
                    validation_trajectories, training_objects, scores, baseline,
                    weights, grad, version, steps, zeroed, epochs, calls,
                    received, visited_terminating_states >>

\* Line 227-229: loss.backward(), optimizer.step(), scheduler.step().
PolicyStep ==
    /\ pc = "policy_step"
    /\ UNCHANGED statesVars
    /\ pc' = "end"
    /\ LET g == Backward(grad, loss.leaves, "loss")
       IN  /\ grad' = g
           /\ steps' = steps \o StepRecords("optimizer", optimizer, g, version)
    /\ version' = StepVersions(optimizer, version)
    /\ epochs' = [epochs EXCEPT !.optimizer = @ + 1]
    /\ calls' = calls \cup {"optimizer.step"}
    /\ UNCHANGED << error, argsVars, i, actions_sampler, optimizer, optimizer_Z,
                    use_replay_buffer, replay_buffer, trajectories,
                    validation_trajectories, training_objects, scores, baseline,
                    weights, loss, zeroed, received,
                    visited_terminating_states >>

\* Line 231-242: visited_terminating_states.extend(...), logging, validation.
EndIteration ==
    /\ pc = "end"
    /\ UNCHANGED statesVars
    /\ pc' = "loop"
    /\ visited_terminating_states' =
          Append(visited_terminating_states,
                 IF ~sample_from_reward THEN training_objects
                 ELSE validation_trajectories)
    /\ i' = i + 1
    /\ UNCHANGED << error, argsVars, actions_sampler, optimizer, optimizer_Z,
                    use_replay_buffer, replay_buffer, trajectories,
                    validation_trajectories, training_objects, scores, baseline,
                    weights, loss, grad, version, steps, zeroed, epochs, calls,
                    received >>

ScriptNext ==
    \/ Startup
    \/ Setup
    \/ CheckCombination
    \/ LoopHead
    \/ Sample
    \/ Replay
    \/ GetScores
    \/ ZeroGrad
    \/ LossZStep
    \/ PolicyLoss
    \/ PolicyStep
    \/ EndIteration

(***************************************************************************)
(* src/gfn/containers/states.py                                            *)
(*                                                                         *)
(* A tensor is its shape and its elements in row-major order.  All tensors *)
(* live on one device.  An assert statement whose condition is false ends  *)
(* the call with AssertionError.                                           *)
(***************************************************************************)
Values == {"0.0", "-inf", "nan"}

\* The == of two float elements.
TorchEq(a, b) == a # "nan" /\ b # "nan" /\ a = b

RECURSIVE Numel(_)
Numel(shape) == IF shape = << >> THEN 1 ELSE Head(shape) * Numel(Tail(shape))

Shapes ==
    {s \in UNION {[1..r -> 1..MaxDim] : r \in 0..MaxRank} : Numel(s) <= MaxNumel}

PyNone == [type |-> "NoneType", shape |-> << >>, data |-> << >>]
PyList == [type |-> "list", shape |-> << >>, data |-> << >>]
Tensor(shape, data) == [type |-> "Tensor", shape |-> shape, data |-> data]
PyTuple(shape) == [type |-> "tuple", shape |-> shape, data |-> << >>]
PyInt(n) == [type |-> "int", shape |-> << >>, data |-> << n >>]
PyFloat == [type |-> "float", shape |-> << >>, data |-> << >>]

\* torch.full(shape, v), torch.ones(shape, dtype=bool), torch.zeros(shape, dtype=bool)
Full(shape, v) == Tensor(shape, [k \in 1..Numel(shape) |-> v])

TensorsOfShape(shape) == {Tensor(shape, d) : d \in [1..Numel(shape) -> Values]}

Tensors == UNION {TensorsOfShape(s) : s \in Shapes}

\* The sentinels a subclass may declare: constant fills.
Sentinels == {Full(s, v) : s \in Shapes, v \in Values}

\* Python's seq[k:] and seq[:k] for an index k that may be negative.
PyIndex(k, n) ==
    IF k < 0 THEN (IF n + k < 0 THEN 0 ELSE n + k)
    ELSE IF k > n THEN n ELSE k

SliceFrom(seq, k) == SubSeq(seq, PyIndex(k, Len(seq)) + 1, Len(seq))

SliceTo(seq, k) == SubSeq(seq, 1, PyIndex(k, Len(seq)))

\* t.repeat(*batch_shape, *((1,) * t.dim()))
Repeat(t, batch_shape) ==
    LET n == Numel(t.shape)
    IN  Tensor(batch_shape \o t.shape,
               [k \in 1..(Numel(batch_shape) * n) |-> t.data[((k - 1) % n) + 1]])

\* a == b for two tensors of one shape.
ElementwiseEq(a, b) ==
    Tensor(a.shape, [k \in 1..Len(a.data) |-> TorchEq(a.data[k], b.data[k])])

\* out.all(dim=-1)
AllLastDim(t) ==
    LET d == t.shape[Len(t.shape)]
    IN  Tensor(SubSeq(t.shape, 1, Len(t.shape) - 1),
               [k \in 1..(Len(t.data) \div d) |->
                   \A j \in 1..d : t.data[(k - 1) * d + j]])

AnyLastDim(t) ==
    LET d == t.shape[Len(t.shape)]
    IN  Tensor(SubSeq(t.shape, 1, Len(t.shape) - 1),
               [k \in 1..(Len(t.data) \div d) |->
                   \E j \in 1..d : t.data[(k - 1) * d + j]])

\* for _ in range(n): out = out.all(dim=-1)
RECURSIVE AllTimes(_, _)
AllTimes(t, n) == IF n = 0 THEN t ELSE AllTimes(AllLastDim(t), n - 1)

RECURSIVE AnyTimes(_, _)
AnyTimes(t, n) == IF n = 0 THEN t ELSE AnyTimes(AnyLastDim(t), n - 1)

NoClass ==
    [status |-> "undefined", error |-> "none", n_actions |-> PyNone,
     s_0 |-> PyNone, s_f |-> PyNone, state_shape |-> << >>, state_ndim |-> 0,
     update_masks |-> "none"]

Rejected(e, n_actions, s_0, s_f, update) ==
    [status |-> "rejected", error |-> e, n_actions |-> n_actions,
     s_0 |-> s_0, s_f |-> s_f, state_shape |-> << >>, state_ndim |-> 0,
     update_masks |-> update]

Accepted(n_actions, s_0, s_f, update) ==
    [status |-> "accepted", error |-> "none", n_actions |-> n_actions,
     s_0 |-> s_0, s_f |-> s_f, state_shape |-> s_0.shape,
     state_ndim |-> Len(s_0.shape), update_masks |-> update]

\* States.__init_subclass__ without the comparison of the two shapes.
InitSubclassNoShapeCheck(n_actions, s_0, s_f, update) ==
    IF n_actions.type = "NoneType" THEN
        Rejected("ValueError", n_actions, s_0, s_f, update)
    ELSE IF n_actions.type # "int" THEN
        Rejected("ValueError", n_actions, s_0, s_f, update)
    ELSE IF s_0.type = "NoneType" THEN
        Rejected("ValueError", n_actions, s_0, s_f, update)
    ELSE IF s_0.type # "Tensor" THEN
        Rejected("ValueError", n_actions, s_0, s_f, update)
    ELSE IF s_f.type = "NoneType" THEN
        Accepted(n_actions, s_0, Full(s_0.shape, "-inf"), update)
    ELSE IF s_f.type = "Tensor" THEN
        Accepted(n_actions, s_0, s_f, update)
    ELSE
        Rejected("ValueError", n_actions, s_0, s_f, update)

\* States.__init_subclass__
InitSubclass(n_actions, s_0, s_f, update) ==
    IF n_actions.type = "NoneType" THEN
        Rejected("ValueError", n_actions, s_0, s_f, update)
    ELSE IF n_actions.type # "int" THEN
        Rejected("ValueError", n_actions, s_0, s_f, update)
    ELSE IF s_0.type = "NoneType" THEN
        Rejected("ValueError", n_actions, s_0, s_f, update)
    ELSE IF s_0.type # "Tensor" THEN
        Rejected("ValueError", n_actions, s_0, s_f, update)
    ELSE IF s_f.type = "NoneType" THEN
        Accepted(n_actions, s_0, Full(s_0.shape, "-inf"), update)
    ELSE IF s_f.type = "Tensor" THEN
        IF ~(s_0.shape = s_f.shape)
        THEN Rejected("TypeError", n_actions, s_0, s_f, update)
        ELSE Accepted(n_actions, s_0, s_f, update)
    ELSE
        Rejected("ValueError", n_actions, s_0, s_f, update)

\* States.make_initial_states
make_initial_states(c, batch_shape) == Repeat(c.s_0, batch_shape)

\* States.is_initial_state with any() in place of all().
is_initial_state_any(c, states, batch_shape) ==
    AnyTimes(ElementwiseEq(states, make_initial_states(c, batch_shape)),
             c.state_ndim)

\* States.is_initial_state
is_initial_state(c, states, batch_shape) ==
    AllTimes(ElementwiseEq(states, make_initial_states(c, batch_shape)),
             c.state_ndim)

\* States.is_sink_state
is_sink_state(c, states, batch_shape) ==
    LET sink_states == Repeat(c.s_f, batch_shape)
    IN  AllTimes(ElementwiseEq(states, sink_states), c.state_ndim)

\* Element j of node b of a batch of nodes.
NodeElem(c, states, b, j) == states.data[(b - 1) * Numel(c.state_shape) + j]

\* update_masks is supplied by the environment.  Two implementations that read
\* only the states and the current masks: "assign" overwrites every entry,
\* "and" clears entries in place.
UpdateMasks(c, o) ==
    LET n == Numel(c.state_shape)
        na == c.n_actions.data[1]
        Fwd(b) == \E j \in 1..n : NodeElem(c, o.states, b, j) # "-inf"
        Bwd(b) == \E j \in 1..n : NodeElem(c, o.states, b, j) # "0.0"
        fm == [k \in 1..Len(o.forward_masks.data) |->
                  LET b == ((k - 1) \div na) + 1
                  IN  IF c.update_masks = "assign" THEN Fwd(b)
                      ELSE o.forward_masks.data[k] /\ Fwd(b)]
        bm == [k \in 1..Len(o.backward_masks.data) |->
                  LET b == ((k - 1) \div (na - 1)) + 1
                  IN  IF c.update_masks = "assign" THEN Bwd(b)
                      ELSE o.backward_masks.data[k] /\ Bwd(b)]
    IN  [o EXCEPT !.forward_masks = Tensor(o.forward_masks.shape, fm),
                  !.backward_masks = Tensor(o.backward_masks.shape, bm)]

\* torch.ones(shape, dtype=torch.bool) / torch.zeros(shape, dtype=torch.bool)
Ones(shape) == Full(shape, TRUE)
Zeros(shape) == Full(shape, FALSE)

\* zero-sized last dimension when n_actions = 1
MaskShape(batch_shape, width) == batch_shape \o << width >>
MaskTensor(batch_shape, width, v) ==
    Tensor(MaskShape(batch_shape, width),
           [k \in 1..(Numel(batch_shape) * width) |-> v])

\* States.make_masks that allocates the masks only when the container has none yet.
make_masks_keep(c, o) ==
    IF o.forward_masks.shape = << >> /\ o.backward_masks.shape = << >>
    THEN UpdateMasks(c, [o EXCEPT
        !.forward_masks = MaskTensor(o.batch_shape, c.n_actions.data[1], TRUE),
        !.backward_masks = MaskTensor(o.batch_shape, c.n_actions.data[1] - 1, TRUE)])
    ELSE UpdateMasks(c, o)

\* States.make_masks
make_masks(c, o) ==
    UpdateMasks(c, [o EXCEPT
        !.forward_masks = MaskTensor(o.batch_shape, c.n_actions.data[1], TRUE),
        !.backward_masks = MaskTensor(o.batch_shape, c.n_actions.data[1] - 1, TRUE)])

NoMask == Tensor(<< >>, << >>)

NoObj ==
    [exists |-> FALSE, states |-> PyNone, batch_shape |-> << >>,
     is_initial |-> PyNone, is_sink |-> PyNone,
     forward_masks |-> NoMask, backward_masks |-> NoMask]

Raised(e) == [error |-> e, obj |-> NoObj]

\* Line 110-115: the end of every construction path.
Finish(c, states, batch_shape, is_initial, is_sink) ==
    [error |-> "none",
     obj |-> make_masks(c,
        [exists |-> TRUE, states |-> states, batch_shape |-> batch_shape,
         is_initial |-> is_initial, is_sink |-> is_sink,
         forward_masks |-> NoMask, backward_masks |-> NoMask])]

\* States.__init__ (rnd: what make_random_states returns for batch_shape)
States__init__(c, states, random_init, batch_shape, is_initial, is_sink, rnd) ==
    IF states.type = "NoneType" THEN
        IF ~(batch_shape.type # "NoneType") THEN Raised("AssertionError")
        ELSE IF ~(is_initial.type = "NoneType" /\ is_sink.type = "NoneType")
        THEN Raised("AssertionError")
        ELSE IF random_init THEN
            Finish(c, rnd, batch_shape.shape,
                   is_initial_state(c, rnd, batch_shape.shape),
                   is_sink_state(c, rnd, batch_shape.shape))
        ELSE
            Finish(c, make_initial_states(c, batch_shape.shape), batch_shape.shape,
                   Ones(batch_shape.shape), Zeros(batch_shape.shape))
    ELSE
        LET shape == states.shape
        IN  IF ~(SliceFrom(shape, -c.state_ndim) = c.state_shape)
            THEN Raised("AssertionError")
            ELSE LET bs == SliceTo(shape, -c.state_ndim)
                 IN  Finish(c, states, bs,
                            IF is_initial.type = "NoneType"
                            THEN is_initial_state(c, states, bs) ELSE is_initial,
                            IF is_sink.type = "NoneType"
                            THEN is_sink_state(c, states, bs) ELSE is_sink)

NoCall ==
    [op |-> "none", after |-> "none", path |-> "none", arg_shape |-> << >>,
     is_initial |-> PyNone, is_sink |-> PyNone, error |-> "none"]

\* The flag tensors a caller may pass for a batch shape.
FlagArgs(batch_shape) == {PyNone, Ones(batch_shape), Zeros(batch_shape)}

\* The batch shapes that keep a batch of nodes of shape state_shape within the bounds.
BatchShapes(state_shape) == {b \in Shapes : (b \o state_shape) \in Shapes}

\* n_actions as declared by a subclass: missing, not an integer, or an integer.
NActionsArgs == {PyNone, PyFloat, PyInt(1), PyInt(2)}
SentinelArgs == {PyNone, PyList} \cup Sentinels
UpdateKinds == {"assign", "and"}

StatesInit ==
    /\ cls = NoClass
    /\ obj = NoObj
    /\ call = NoCall
    /\ built_masks = << NoMask, NoMask >>

\* class X(States): n_actions = ...; s_0 = ...; s_f = ...   (an attribute that is
\* not set is inherited from States, where it is None)
ClassStatement ==
    /\ cls.status = "undefined"
    /\ \E n \in NActionsArgs, s0 \in SentinelArgs, sf \in SentinelArgs,
          u \in UpdateKinds :
          cls' = InitSubclass(n, s0, sf, u)
    /\ UNCHANGED << obj, call, built_masks >>
    /\ UNCHANGED scriptVars

\* make_States_class: type(class_name, (States,), {...}) runs __init_subclass__.
make_States_class ==
    /\ cls.status = "undefined"
    /\ \E n \in NActionsArgs \ {PyNone}, s0 \in SentinelArgs \ {PyNone},
          sf \in SentinelArgs, u \in UpdateKinds :
          cls' = InitSubclass(n, s0, sf, u)
    /\ UNCHANGED << obj, call, built_masks >>
    /\ UNCHANGED scriptVars

Constructed(r, path, arg_shape, is_initial, is_sink) ==
    /\ obj' = r.obj
    /\ call' = [op |-> "__init__", after |-> call.op, path |-> path,
                arg_shape |-> arg_shape,
                is_initial |-> is_initial, is_sink |-> is_sink, error |-> r.error]
    /\ built_masks' = << r.obj.forward_masks, r.obj.backward_masks >>

\* cls(None, random_init=..., batch_shape=..., is_initial=..., is_sink=...)
ConstructFromNone ==
    /\ cls.status = "accepted"
    /\ call.op = "none"
    /\ \E random_init \in BOOLEAN,
          batch_shape \in {PyNone} \cup {PyTuple(b) : b \in BatchShapes(cls.state_shape)},
          flags \in {<< PyNone, PyNone >>, << Ones(<< >>), PyNone >>,
                     << PyNone, Zeros(<< >>) >>} :
          \E rnd \in IF random_init /\ batch_shape.type = "tuple"
                     THEN TensorsOfShape(batch_shape.shape \o cls.state_shape)
                     ELSE {PyNone} :
             Constructed(
                 States__init__(cls, PyNone, random_init, batch_shape,
                                flags[1], flags[2], rnd),
                 IF random_init THEN "random" ELSE "root",
                 batch_shape.shape, flags[1], flags[2])
    /\ UNCHANGED cls
    /\ UNCHANGED scriptVars

\* cls(states, is_initial=..., is_sink=...) for a tensor supplied by the caller
ConstructFromTensor ==
    /\ cls.status = "accepted"
    /\ call.op = "none"
    /\ \E states \in Tensors :
          LET bs == SliceTo(states.shape, -cls.state_ndim)
          IN  \E is_initial \in FlagArgs(bs), is_sink \in FlagArgs(bs) :
                 Constructed(
                     States__init__(cls, states, FALSE, PyNone, is_initial,
                                    is_sink, PyNone),
                     "tensor", states.shape, is_initial, is_sink)
    /\ UNCHANGED cls
    /\ UNCHANGED scriptVars

\* obj.make_masks()
MakeMasks ==
    /\ obj.exists
    /\ obj' = make_masks(cls, obj)
    /\ call' = [NoCall EXCEPT !.op = "make_masks", !.after = call.op]
    /\ UNCHANGED << cls, built_masks >>
    /\ UNCHANGED scriptVars

\* The masks are attributes of the container: the environment writes them
\* between two recomputations (here: every entry set to v).
WriteMasks ==
    /\ obj.exists
    /\ \E v \in BOOLEAN :
          obj' = [obj EXCEPT
              !.forward_masks = Tensor(@.shape, [k \in 1..Len(@.data) |-> v]),
              !.backward_masks = Tensor(@.shape, [k \in 1..Len(@.data) |-> v])]
    /\ call' = [NoCall EXCEPT !.op = "write_masks", !.after = call.op]
    /\ UNCHANGED << cls, built_masks >>
    /\ UNCHANGED scriptVars

StatesNext ==
    \/ ClassStatement
    \/ make_States_class
    \/ ConstructFromNone
    \/ ConstructFromTensor
    \/ MakeMasks
    \/ WriteMasks

(***************************************************************************)
(* The claims about src/four_kls.py, stated for Spec.                      *)
(***************************************************************************)
InLoopBody == pc \in {"sample", "replay", "scores", "zero_grad", "loss_Z",
                      "policy_loss", "policy_step", "end"}
CheckPassed == InLoopBody \/ pc \in {"loop", "exit"}
CheckRaised == pc = "failed" /\ error = "ValueError"
ScoresComputed == pc \in {"zero_grad", "loss_Z", "policy_loss", "policy_step", "end"}

DocumentedInvalid ==
    { <<"tb", TRUE, TRUE>>, <<"forward_kl", TRUE, TRUE>>, <<"reverse_kl", TRUE, FALSE>> }

\* C1: once the pre-flight check has run, it has raised exactly when
\* (mode, sample_from_reward, reweight) is one of (tb, True, True),
\* (forward_kl, True, True), (reverse_kl, True, False).
C1_RejectsExactlyTheThree ==
    (CheckPassed \/ CheckRaised) =>
        (CheckRaised <=> << mode, sample_from_reward, reweight >> \in DocumentedInvalid)

\* C2: a run with mode=tb, sample_from_reward=True, reweight=True ends with the
\* 'Invalid combination of parameters' error, no sampler, replay-buffer or
\* optimizer call precedes it, and no other failure ends the run first.
C2_ConfigErrorBeforeSampling ==
    (mode = "tb" /\ sample_from_reward /\ reweight /\ pc \in {"failed", "exit"}) =>
        (error = "ValueError" /\ calls = {})

\* C7: with the replay buffer enabled the fresh batch is added to the buffer
\* and get_scores is computed on what replay_buffer.sample returned; with the
\* buffer disabled get_scores is computed on the fresh batch.
C7_LossOnReplaySample ==
    ScoresComputed =>
        IF use_replay_buffer
        THEN /\ received.replay_buffer = trajectories
             /\ received.get_scores = training_objects
             /\ received.get_scores.src = "buffer"
        ELSE /\ received.get_scores = trajectories
             /\ received.get_scores.src = "sampler"

Range(f) == {f[k] : k \in DOMAIN f}

\* C8: in every mode other than tb, logZ is changed only by optimizer_Z's step
\* and with the gradient of loss_Z alone, the policy parameters only by
\* optimizer's step and with the gradient of the policy loss alone; loss_Z
\* leaves no gradient on the policy parameters and the policy loss none on logZ.
C8_DisjointGradientPaths ==
    mode # "tb" =>
        /\ \A k \in 1..Len(steps) :
              /\ steps[k].param = "logZ" =>
                    steps[k].by = "optimizer_Z" /\ steps[k].grad = << "loss_Z" >>
              /\ steps[k].param \in {"PF", "PB"} =>
                    steps[k].by = "optimizer" /\ steps[k].grad = << "loss" >>
        /\ \A p \in {"PF", "PB"} : "loss_Z" \notin Range(grad[p])
        /\ "loss" \notin Range(grad["logZ"])
        /\ pc = "end" =>
              /\ { steps[k].param : k \in 1..Len(steps) } = Params
              /\ Len(steps) = 3
              /\ version = [p \in Params |-> i + 1]

C8_Witness ==
    /\ mode = "reverse_rws"
    /\ baseline_kind = "global"
    /\ reweight
    /\ pc = "end"
    /\ i = 1
    /\ Len(steps) = 3

\* C9: with sample_from_reward the training batch comes from the backward
\* sampler through sample_trajectories and is reversed before the replay
\* buffer and get_scores receive it; without it the batch comes from the
\* forward sampler through sample and is never reversed.
C9_ReversalBeforeForwardConsumers ==
    /\ \A c \in {"get_scores", "replay_buffer"} :
          received[c] # NoBatch =>
              /\ received[c].order = "root_first"
              /\ received[c].reverted <=> sample_from_reward
              /\ received[c].sampler = (IF sample_from_reward THEN "PB" ELSE "PF")
    /\ (InLoopBody /\ pc # "sample") =>
          /\ trajectories.order = "root_first"
          /\ trajectories.reverted <=> sample_from_reward
    /\ sample_from_reward => "trajectories_sampler.sample" \notin calls
    /\ ~sample_from_reward =>
          "trajectories_sampler.sample_trajectories" \notin calls

C9_Witness ==
    /\ sample_from_reward
    /\ use_replay_buffer
    /\ pc = "zero_grad"
    /\ i = 1
    /\ received.get_scores.reverted
    /\ received.replay_buffer.reverted
    /\ received.get_scores.sampler = "PB"

\* C10: in mode tb an iteration zeroes both gradient buffers once, then changes
\* logZ twice: optimizer_Z applies the gradient of loss_Z, then optimizer
\* applies the sum of the gradients of loss_Z and of the tb loss, and the tb
\* loss reads the logZ that optimizer_Z has already updated.
C10_TBUpdatesLogZTwice ==
    (mode = "tb" /\ pc = "end") =>
        LET IsLogZ(r) == r.param = "logZ"
        IN  /\ zeroed = << "optimizer", "optimizer_Z" >>
            /\ SelectSeq(steps, IsLogZ) =
                  << [by |-> "optimizer_Z", param |-> "logZ",
                      grad |-> << "loss_Z" >>, from |-> 2 * i],
                     [by |-> "optimizer", param |-> "logZ",
                      grad |-> << "loss_Z", "loss" >>, from |-> 2 * i + 1] >>
            /\ loss.logZ_version = 2 * i + 1
            /\ version["logZ"] = 2 * (i + 1)

C10_Witness ==
    /\ mode = "tb"
    /\ pc = "end"
    /\ i = 1
    /\ version["logZ"] = 4

(***************************************************************************)
(* The claims about src/gfn/containers/states.py, stated for SpecStates.  *)
(***************************************************************************)
\* Node b of the batch equals the sentinel element-wise.
NodeEq(c, states, b, sentinel) ==
    \A j \in 1..Numel(c.state_shape) :
        TorchEq(NodeElem(c, states, b, j), sentinel.data[j])

BatchIndices == 1..Numel(obj.batch_shape)

\* C3: in every container the constructor produces, on every construction
\* path, is_initial[b] holds exactly when node b equals s_0 element-wise and
\* is_sink[b] exactly when node b equals s_f element-wise.
C3_FlagsMatchSentinels ==
    obj.exists =>
        \A b \in BatchIndices :
            /\ obj.is_initial.data[b] <=> NodeEq(cls, obj.states, b, cls.s_0)
            /\ obj.is_sink.data[b] <=> NodeEq(cls, obj.states, b, cls.s_f)

\* C3, amended: a flag the constructor derives (random_init, or a supplied
\* tensor without that flag) holds exactly when the node equals the sentinel
\* element-wise; a flag the caller passes is stored as passed; the root-filled
\* path sets is_initial everywhere and is_sink nowhere, which agrees with the
\* element-wise tests when s_0 equals itself and differs from s_f.
C3_DerivedFlagsMatchSentinels ==
    (obj.exists /\ call.op = "__init__") =>
        /\ obj.is_initial.shape = obj.batch_shape
        /\ obj.is_sink.shape = obj.batch_shape
        /\ \A b \in BatchIndices :
            /\ (call.path = "random" \/ (call.path = "tensor" /\ call.is_initial = PyNone))
                  => (obj.is_initial.data[b] <=> NodeEq(cls, obj.states, b, cls.s_0))
            /\ (call.path = "random" \/ (call.path = "tensor" /\ call.is_sink = PyNone))
                  => (obj.is_sink.data[b] <=> NodeEq(cls, obj.states, b, cls.s_f))
            /\ (call.path = "tensor" /\ call.is_initial # PyNone)
                  => obj.is_initial = call.is_initial
            /\ (call.path = "tensor" /\ call.is_sink # PyNone)
                  => obj.is_sink = call.is_sink
            /\ call.path = "root" =>
                  /\ obj.is_initial.data[b] /\ ~obj.is_sink.data[b]
                  /\ (/\ \A j \in 1..Len(cls.s_0.data) :
                            TorchEq(cls.s_0.data[j], cls.s_0.data[j])
                      /\ \E j \in 1..Len(cls.s_0.data) :
                            ~TorchEq(cls.s_0.data[j], cls.s_f.data[j]))
                        => /\ NodeEq(cls, obj.states, b, cls.s_0)
                           /\ ~NodeEq(cls, obj.states, b, cls.s_f)

C3_Witness ==
    /\ obj.exists
    /\ call.op = "__init__"
    /\ call.path = "tensor"
    /\ call.is_initial = PyNone
    /\ call.is_sink = PyNone
    /\ cls.state_shape = << 2 >>
    /\ cls.s_0.data = << "0.0", "0.0" >>
    /\ obj.states.data = << "0.0", "-inf" >>
    /\ obj.is_initial.data = << FALSE >>
    /\ obj.is_sink.data = << FALSE >>

\* What C4 takes the constructor to compare.
TrailingDimsEqual(shape, state_shape) ==
    /\ Len(shape) >= Len(state_shape)
    /\ SubSeq(shape, Len(shape) - Len(state_shape) + 1, Len(shape)) = state_shape

LeadingDims(shape, state_shape) == SubSeq(shape, 1, Len(shape) - Len(state_shape))

\* C4: wrapping a supplied tensor succeeds exactly when its trailing
\* state_ndim dimensions equal state_shape, for a state_shape of any number of
\* dimensions (zero included); batch_shape is then the leading dimensions, and
\* otherwise the call fails and produces no container.
C4_WrapValidatesTrailingShape ==
    (call.op = "__init__" /\ call.path = "tensor") =>
        /\ obj.exists <=> TrailingDimsEqual(call.arg_shape, cls.state_shape)
        /\ obj.exists => obj.batch_shape = LeadingDims(call.arg_shape, cls.state_shape)
        /\ ~obj.exists => call.error # "none"

\* s_0 and s_f compare equal: same shape and every pair of elements ==.
TensorsCompareEqual(a, b) ==
    /\ a.shape = b.shape
    /\ \A k \in 1..Len(a.data) : TorchEq(a.data[k], b.data[k])

\* The sentinels a defined class ends up with (s_f defaults to -inf like s_0).
EffectiveSf ==
    IF cls.s_f.type = "NoneType" /\ cls.s_0.type = "Tensor"
    THEN Full(cls.s_0.shape, "-inf") ELSE cls.s_f

\* C5: every accepted subclass has s_0 and s_f of identical shape that do not
\* compare equal, and a subclass whose sentinels break either condition is
\* rejected with an error.
C5_SentinelsSameShapeNeverEqual ==
    (cls.status # "undefined" /\ cls.s_0.type = "Tensor" /\ EffectiveSf.type = "Tensor") =>
        (cls.status = "accepted" =>
            /\ cls.s_0.shape = cls.s_f.shape
            /\ ~TensorsCompareEqual(cls.s_0, cls.s_f))

\* C5, amended: every accepted subclass has tensors s_0 and s_f of identical
\* shape (s_f defaults to a -inf fill of s_0's shape), and a subclass whose
\* s_f is a tensor of another shape than s_0 is rejected with TypeError;
\* whether the two compare equal is not checked.
C5_SentinelsSameShape ==
    /\ cls.status = "accepted" =>
          /\ cls.s_0.type = "Tensor"
          /\ cls.s_f.type = "Tensor"
          /\ cls.s_0.shape = cls.s_f.shape
          /\ cls.state_shape = cls.s_0.shape
    /\ (/\ cls.status # "undefined"
        /\ cls.n_actions.type = "int"
        /\ cls.s_0.type = "Tensor"
        /\ cls.s_f.type = "Tensor"
        /\ cls.s_0.shape # cls.s_f.shape)
          => (cls.status = "rejected" /\ cls.error = "TypeError")

C5_Witness ==
    /\ cls.status = "accepted"
    /\ cls.state_shape = << 2 >>
    /\ cls.s_0 = Full(<< 2 >>, "0.0")
    /\ cls.s_f = cls.s_0

\* C6: a make_masks call leaves the masks equal to those the container held
\* when its constructor returned, whatever they held before the call (the
\* states are never changed), and the constructor ends by recomputing them.
C6_MakeMasksIdempotent ==
    /\ call.op = "make_masks" =>
          << obj.forward_masks, obj.backward_masks >> = built_masks
    /\ (call.op = "__init__" /\ obj.exists) =>
          /\ obj.forward_masks.shape = MaskShape(obj.batch_shape, cls.n_actions.data[1])
          /\ obj.backward_masks.shape =
                MaskShape(obj.batch_shape, cls.n_actions.data[1] - 1)
          /\ << obj.forward_masks, obj.backward_masks >> = built_masks

C6_Witness ==
    /\ call.op = "make_masks"
    /\ call.after = "write_masks"
    /\ cls.update_masks = "and"
    /\ TRUE \in Range(obj.forward_masks.data)
    /\ FALSE \in Range(obj.forward_masks.data)
    /\ TRUE \in Range(obj.backward_masks.data)

\* The state of the container while the script runs, and of the script while
\* the container is exercised.
ScriptIdle ==
    /\ pc = "idle"
    /\ error = "none"
    /\ optimize = FALSE
    /\ mode = "tb"
    /\ sample_from_reward = FALSE
    /\ reweight = FALSE
    /\ baseline_kind = "None"
    /\ replay_buffer_size = 0
    /\ n_iterations = 0
    /\ i = 0
    /\ actions_sampler = "None"
    /\ optimizer = {}
    /\ optimizer_Z = {}
    /\ use_replay_buffer = FALSE
    /\ replay_buffer = << >>
    /\ trajectories = NoBatch
    /\ validation_trajectories = NoBatch
    /\ training_objects = NoBatch
    /\ scores = NoBatch
    /\ baseline = {}
    /\ weights = "undefined"
    /\ loss = [leaves |-> {}, logZ_version |-> -1, name |-> "none"]
    /\ grad = [p \in Params |-> << >>]
    /\ version = [p \in Params |-> 0]
    /\ steps = << >>
    /\ zeroed = << >>
    /\ epochs = [optimizer |-> 0, optimizer_Z |-> 0]
    /\ calls = {}
    /\ received = [get_scores |-> NoBatch, replay_buffer |-> NoBatch]
    /\ visited_terminating_states = << >>

Init == ScriptInit /\ StatesInit

Next == ScriptNext

\* The training script.
Spec == Init /\ [][Next]_vars

\* The States container.
InitStates == StatesInit /\ ScriptIdle

SpecStates == InitStates /\ [][StatesNext]_vars
====
